---------------------------- MODULE Spec2Model ----------------------------
(***************************************************************************)
(* World Cup 2026 simulator (src/app.py): group standings, selection of    *)
(* the 8 qualifying third-placed teams, their assignment to the round of   *)
(* 32 by backtracking, and the propagation of winners up to the final.     *)
(*                                                                         *)
(* Three specifications share the variables:                               *)
(*   Spec      one browser session of the script (every user interaction   *)
(*             re-runs the script from top to bottom);                     *)
(*   SpecR32   montar_round32 / distribuir_terceiros_nos_jogos as pure     *)
(*             functions applied to enumerated inputs;                     *)
(*   SpecSeed  extrair_time as a pure function applied to enumerated       *)
(*             codes and standings.                                        *)
(***************************************************************************)
EXTENDS Integers, Sequences, FiniteSets, TLC

VARIABLES
    pc,                 \* which specification runs and whether the function has been applied
    choice,             \* selectbox values, key group_<g>_pos_<n>
    checked,            \* checkbox values, key third_<g>
    stage,              \* where the script run ended: the st.stop() reached, or "bracket"
    standings,          \* montar_classificacao_grupos(...)[0]
    errors_groups,      \* montar_classificacao_grupos(...)[1], as the groups reported
    qualified_thirds,   \* escolher_top8_terceiros_ui(...)[0]
    errors_thirds,      \* escolher_top8_terceiros_ui(...)[1]
    jogos_terceiros,    \* result of distribuir_terceiros_nos_jogos
    jogos_r32,          \* montar_round32(...)[0]
    err,                \* montar_round32(...)[1]
    winners32, winners16, winnersQ, winnersS,
    teams,              \* the two teams (t1, t2) shown for each match after the round of 32
    third_place_winner,
    champion,
    code,               \* SpecSeed: the seed code given to extrair_time
    team_out            \* SpecSeed: what extrair_time returned

vars == <<pc, choice, checked, stage, standings, errors_groups, qualified_thirds,
          errors_thirds, jogos_terceiros, jogos_r32, err, winners32, winners16,
          winnersQ, winnersS, teams, third_place_winner, champion,
          code, team_out>>

(***************************************************************************)
(* Python values                                                           *)
(***************************************************************************)
None == "<None>"

EMPTY == "-"

EmptyDict == [x \in {} |-> x]

\* Optional[Dict]: a dict cannot be compared with the string None, so an
\* optional dict is the sequence of no dict (None) or of one dict.
NoDict == <<>>

SomeDict(d) == <<d>>

Range(s) == {s[k] : k \in DOMAIN s}

(***************************************************************************)
(* Configuration                                                           *)
(***************************************************************************)
INITIAL_GROUPS ==
    [A |-> <<"Mexico", "South Africa", "South Korea", "UEFA D (DEN/MKD/CZE/IRL)">>,
     B |-> <<"Canada", "UEFA A (ITA/NIR/WAL/BIH)", "Qatar", "Switzerland">>,
     C |-> <<"Brazil", "Morrocco", "Haiti", "Scotland">>,
     D |-> <<"USA", "Paraguay", "Australia", "UEFA C (SVK/KOS/TUR/ROU)">>,
     E |-> <<"Germany", "Curacao", "Ivory Coast", "Ecuador">>,
     F |-> <<"Netherlands", "Japan", "UEFA B (UKR/SWE/POL/ALB)", "Tunisia">>,
     G |-> <<"Belgium", "Egypt", "Iran", "New Zealand">>,
     H |-> <<"Spain", "Cabo Verde", "Saudi Arabia", "Uruguay">>,
     I |-> <<"France", "Senegal", "IC2 (BOL/SUR/IRQ)", "Norway">>,
     J |-> <<"Argentina", "Algeria", "Austria", "Jordan">>,
     K |-> <<"Portugal", "IC1 (NCL/JAM/COD)", "Uzbekistan", "Colombia">>,
     L |-> <<"England", "Croatia", "Ghana", "Panama">>]

GROUP_NAMES == <<"A", "B", "C", "D", "E", "F", "G", "H", "I", "J", "K", "L">>

GroupSet == Range(GROUP_NAMES)

Teams == UNION {Range(INITIAL_GROUPS[g]) : g \in GroupSet}

ROUND32_FIXED ==
    [M73 |-> <<<<"2", "A">>, <<"2", "B">>>>,
     M75 |-> <<<<"1", "F">>, <<"2", "C">>>>,
     M76 |-> <<<<"1", "C">>, <<"2", "F">>>>,
     M78 |-> <<<<"2", "E">>, <<"2", "I">>>>,
     M83 |-> <<<<"2", "K">>, <<"2", "L">>>>,
     M84 |-> <<<<"1", "H">>, <<"2", "J">>>>,
     M86 |-> <<<<"1", "J">>, <<"2", "H">>>>,
     M88 |-> <<<<"2", "D">>, <<"2", "G">>>>]

\* Mutant: group K is missing from the eligible groups of M80, its only slot.
ROUND32_THIRD_SLOTS_NoK ==
    [M74 |-> <<<<"1", "E">>, <<"A", "B", "C", "D", "F">>>>,
     M77 |-> <<<<"1", "I">>, <<"C", "D", "F", "G", "H">>>>,
     M79 |-> <<<<"1", "A">>, <<"C", "E", "F", "H", "I">>>>,
     M80 |-> <<<<"1", "L">>, <<"E", "H", "I", "J">>>>,
     M81 |-> <<<<"1", "D">>, <<"B", "E", "F", "I", "J">>>>,
     M82 |-> <<<<"1", "G">>, <<"A", "E", "H", "I", "J">>>>,
     M85 |-> <<<<"1", "B">>, <<"E", "F", "G", "I", "J">>>>,
     M87 |-> <<<<"1", "K">>, <<"D", "E", "I", "J", "L">>>>]

ROUND32_THIRD_SLOTS ==
    [M74 |-> <<<<"1", "E">>, <<"A", "B", "C", "D", "F">>>>,
     M77 |-> <<<<"1", "I">>, <<"C", "D", "F", "G", "H">>>>,
     M79 |-> <<<<"1", "A">>, <<"C", "E", "F", "H", "I">>>>,
     M80 |-> <<<<"1", "L">>, <<"E", "H", "I", "J", "K">>>>,
     M81 |-> <<<<"1", "D">>, <<"B", "E", "F", "I", "J">>>>,
     M82 |-> <<<<"1", "G">>, <<"A", "E", "H", "I", "J">>>>,
     M85 |-> <<<<"1", "B">>, <<"E", "F", "G", "I", "J">>>>,
     M87 |-> <<<<"1", "K">>, <<"D", "E", "I", "J", "L">>>>]

\* Mutant: the slots are tried from the last of the table to the first.
match_ids_Reversed == <<"M87", "M85", "M82", "M81", "M80", "M79", "M77", "M74">>

\* list(ROUND32_THIRD_SLOTS.keys()): a dict iterates in insertion order
match_ids == <<"M74", "M77", "M79", "M80", "M81", "M82", "M85", "M87">>

(***************************************************************************)
(* Utility functions                                                       *)
(***************************************************************************)
validar_permutacao(choices, empty) ==
    IF empty \in Range(choices)
    THEN FALSE
    ELSE Len(choices) = Cardinality(Range(choices))

\* The part of montar_classificacao_grupos after the widgets were read:
\* a group's standing is its four choices, or [] with an error reported.
ClassificacaoStandings(ch) ==
    [g \in GroupSet |-> IF validar_permutacao(ch[g], EMPTY) THEN ch[g] ELSE <<>>]

ClassificacaoErrors(ch) ==
    SelectSeq(GROUP_NAMES, LAMBDA g : ~validar_permutacao(ch[g], EMPTY))

coletar_terceiros(st) ==
    LET gs == SelectSeq(GROUP_NAMES, LAMBDA g : Len(st[g]) = 4)
    IN  [k \in 1..Len(gs) |-> <<gs[k], st[gs[k]][3]>>]

PositionIndex == [p \in {"1", "2", "3", "4"} |->
                    CASE p = "1" -> 1 [] p = "2" -> 2 [] p = "3" -> 3 [] p = "4" -> 4]

\* Mutant: the position digit is taken as a 0-based index.
extrair_time_ZeroBased(c, st) ==
    IF Len(c) # 2
    THEN None
    ELSE LET pos == c[1]
             group == c[2]
         IN  IF group \notin DOMAIN st \/ Len(st[group]) # 4
             THEN None
             ELSE IF pos \notin {"0", "1", "2", "3"}
                  THEN None
                  ELSE st[group][CHOOSE n \in 1..4 : <<"0", "1", "2", "3">>[n] = pos]

extrair_time(c, st) ==
    IF Len(c) # 2
    THEN None
    ELSE LET pos == c[1]
             group == c[2]
         IN  IF group \notin DOMAIN st \/ Len(st[group]) # 4
             THEN None
             ELSE IF pos \notin DOMAIN PositionIndex
                  THEN None
                  ELSE st[group][PositionIndex[pos]]

(***************************************************************************)
(* distribuir_terceiros_nos_jogos: depth-first backtracking.  backtrack    *)
(* returns <<found, assignment>>; TrySlots is the body of its for loop     *)
(* from the slot at index j of match_ids on.                               *)
(***************************************************************************)
RECURSIVE backtrack(_, _, _, _)
RECURSIVE TrySlots(_, _, _, _, _)
RECURSIVE TrySlots_AnyGroup(_, _, _, _, _)
RECURSIVE TrySlots_NoRetry(_, _, _, _, _)

\* Mutant: the eligible groups of a slot are not consulted.
TrySlots_AnyGroup(qualified, i, j, used_matches, assignment) ==
    IF j > Len(match_ids)
    THEN <<FALSE, assignment>>
    ELSE LET mid == match_ids[j]
         IN  IF mid \in used_matches
             THEN TrySlots_AnyGroup(qualified, i, j + 1, used_matches, assignment)
             ELSE LET r == backtrack(qualified, i + 1, used_matches \cup {mid},
                                     (mid :> qualified[i]) @@ assignment)
                  IN  IF r[1]
                      THEN r
                      ELSE TrySlots_AnyGroup(qualified, i, j + 1, used_matches, assignment)

\* Mutant: the first eligible free slot is final; no other slot is tried when
\* the pairs after it cannot be placed.
TrySlots_NoRetry(qualified, i, j, used_matches, assignment) ==
    IF j > Len(match_ids)
    THEN <<FALSE, assignment>>
    ELSE LET mid == match_ids[j]
             group == qualified[i][1]
             allowed_groups == ROUND32_THIRD_SLOTS[mid][2]
         IN  IF mid \in used_matches
             THEN TrySlots_NoRetry(qualified, i, j + 1, used_matches, assignment)
             ELSE IF group \notin Range(allowed_groups)
                  THEN TrySlots_NoRetry(qualified, i, j + 1, used_matches, assignment)
                  ELSE backtrack(qualified, i + 1, used_matches \cup {mid},
                                 (mid :> qualified[i]) @@ assignment)

TrySlots(qualified, i, j, used_matches, assignment) ==
    IF j > Len(match_ids)
    THEN <<FALSE, assignment>>
    ELSE LET mid == match_ids[j]
             group == qualified[i][1]
             allowed_groups == ROUND32_THIRD_SLOTS[mid][2]
         IN  IF mid \in used_matches
             THEN TrySlots(qualified, i, j + 1, used_matches, assignment)
             ELSE IF group \notin Range(allowed_groups)
                  THEN TrySlots(qualified, i, j + 1, used_matches, assignment)
                  ELSE LET r == backtrack(qualified, i + 1, used_matches \cup {mid},
                                          (mid :> qualified[i]) @@ assignment)
                       IN  IF r[1]
                           THEN r
                           ELSE TrySlots(qualified, i, j + 1, used_matches, assignment)

backtrack(qualified, i, used_matches, assignment) ==
    IF i = Len(qualified) + 1
    THEN <<TRUE, assignment>>
    ELSE TrySlots(qualified, i, 1, used_matches, assignment)

distribuir_terceiros_nos_jogos(qualified) ==
    IF Len(qualified) # 8
    THEN <<NoDict, "Exactly 8 third-placed teams must be qualified.">>
    ELSE LET r == backtrack(qualified, 1, {}, EmptyDict)
         IN  IF ~r[1]
             THEN <<NoDict, "Unable to assign the selected third-placed teams to the Round of 32.">>
             ELSE <<SomeDict(r[2]), None>>

\* Mutant: the second team of a fixed match is read with the first seed code.
montar_round32_SameCode(st, qualified) ==
    LET d == distribuir_terceiros_nos_jogos(qualified)
    IN  IF d[2] # None
        THEN <<EmptyDict, d[2]>>
        ELSE LET fixed == [mid \in DOMAIN ROUND32_FIXED |->
                             <<extrair_time(ROUND32_FIXED[mid][1], st),
                               extrair_time(ROUND32_FIXED[mid][1], st),
                               <<ROUND32_FIXED[mid][1], ROUND32_FIXED[mid][2]>>>>]
                 third == [mid \in DOMAIN ROUND32_THIRD_SLOTS |->
                             <<extrair_time(ROUND32_THIRD_SLOTS[mid][1], st),
                               d[1][1][mid][2],
                               <<ROUND32_THIRD_SLOTS[mid][1], <<"3", d[1][1][mid][1]>>>>>>]
             IN  <<fixed @@ third, None>>

montar_round32(st, qualified) ==
    LET d == distribuir_terceiros_nos_jogos(qualified)
    IN  IF d[2] # None
        THEN <<EmptyDict, d[2]>>
        ELSE LET fixed == [mid \in DOMAIN ROUND32_FIXED |->
                             <<extrair_time(ROUND32_FIXED[mid][1], st),
                               extrair_time(ROUND32_FIXED[mid][2], st),
                               <<ROUND32_FIXED[mid][1], ROUND32_FIXED[mid][2]>>>>]
                 third == [mid \in DOMAIN ROUND32_THIRD_SLOTS |->
                             <<extrair_time(ROUND32_THIRD_SLOTS[mid][1], st),
                               d[1][1][mid][2],
                               <<ROUND32_THIRD_SLOTS[mid][1], <<"3", d[1][1][mid][1]>>>>>>]
             IN  <<fixed @@ third, None>>


(***************************************************************************)
(* Bracket structure                                                       *)
(***************************************************************************)
ROUND16_MATCHES ==
    [M89 |-> <<"M74", "M77">>,
     M90 |-> <<"M73", "M75">>,
     M91 |-> <<"M76", "M78">>,
     M92 |-> <<"M79", "M80">>,
     M93 |-> <<"M83", "M84">>,
     M94 |-> <<"M81", "M82">>,
     M95 |-> <<"M86", "M88">>,
     M96 |-> <<"M85", "M87">>]

QUARTERS_MATCHES ==
    [M97 |-> <<"M89", "M90">>,
     M98 |-> <<"M93", "M94">>,
     M99 |-> <<"M91", "M92">>,
     M100 |-> <<"M95", "M96">>]

SEMIS_MATCHES ==
    [M101 |-> <<"M97", "M98">>,
     M102 |-> <<"M99", "M100">>]

order32 == <<"M73", "M74", "M75", "M76", "M77", "M78", "M79", "M80",
             "M81", "M82", "M83", "M84", "M85", "M86", "M87", "M88">>

order16 == <<"M89", "M90", "M91", "M92", "M93", "M94", "M95", "M96">>

orderQ == <<"M97", "M98", "M99", "M100">>

orderS == <<"M101", "M102">>

THIRD_PLACE_ID == "M103 (Third Place)"

FINAL_ID == "M104 (Final)"

\* dict.get(key): None when the key is absent
Get(d, k) == IF k \in DOMAIN d THEN d[k] ELSE None

(***************************************************************************)
(* Streamlit widgets.  Every interaction re-runs the script; a widget      *)
(* returns the value the user gave it.  A widget that was not rendered in  *)
(* the previous run starts at its default (first option, unchecked).  When *)
(* the options of a widget differ from those of the previous run, what it  *)
(* returns depends on the Streamlit version: the default, or the previous  *)
(* value when that is still an option; both are modelled.                  *)
(***************************************************************************)
WidgetReturns(options, old_options, old_value, clicked) ==
    IF clicked # None
    THEN {clicked}
    ELSE IF old_value = None
         THEN {options[1]}
         ELSE IF options = old_options
              THEN {old_value}
              ELSE {options[1]} \cup ({old_value} \cap Range(options))

\* Mutant: a winner once recorded is returned again whatever the teams are now.
escolher_vencedor_ui_Stale(match_id, t1, t2, old, clicked) ==
    IF t1 = None \/ t2 = None
    THEN {None}
    ELSE IF clicked = None /\ old[3] # None
         THEN {old[3]}
         ELSE WidgetReturns(<<t1, t2>>, <<old[1], old[2]>>, old[3], clicked)

\* old = <<t1, t2, winner>> of the same match in the previous run
escolher_vencedor_ui(match_id, t1, t2, old, clicked) ==
    IF t1 = None \/ t2 = None
    THEN {None}
    ELSE WidgetReturns(<<t1, t2>>, <<old[1], old[2]>>, old[3], clicked)

\* options of the selectbox of the position after those in pos_choices
SelectboxOptions(group_teams, pos_choices) ==
    LET already_chosen == Range(pos_choices) \ {EMPTY}
        available_teams == SelectSeq(group_teams, LAMBDA t : t \notin already_chosen)
    IN  <<EMPTY>> \o available_teams

\* The loop over the four positions of one group: the lists pos_choices can
\* end as, when the previous run read old and the user has just chosen value
\* in the selectbox of position clicked_pos (0: none was touched).
RECURSIVE ReadPositions(_, _, _, _, _)
ReadPositions(group_teams, old, clicked_pos, value, pos_choices) ==
    IF Len(pos_choices) = 4
    THEN {pos_choices}
    ELSE LET pos_num == Len(pos_choices) + 1
             options == SelectboxOptions(group_teams, pos_choices)
             old_options == SelectboxOptions(group_teams, SubSeq(old, 1, pos_num - 1))
             returned == WidgetReturns(options, old_options, old[pos_num],
                                       IF pos_num = clicked_pos THEN value ELSE None)
         IN  UNION {ReadPositions(group_teams, old, clicked_pos, value,
                                  Append(pos_choices, c)) : c \in returned}

\* The products of the candidate sets: every dict with d[k] \in cand[k]
RECURSIVE DictProduct(_, _)
DictProduct(keys, cand) ==
    IF keys = <<>>
    THEN {EmptyDict}
    ELSE {(Head(keys) :> v) @@ d : v \in cand[Head(keys)],
                                   d \in DictProduct(Tail(keys), cand)}

Clicked(click, match_id) == IF click[1] = match_id THEN click[2] ELSE None

\* Mutant: both teams are read from the first source match.
SourceWinners_SameSource(matches, mid, winners) ==
    <<Get(winners, matches[mid][1]), Get(winners, matches[mid][1])>>

\* t1 = winners.get(m1); t2 = winners.get(m2)
SourceWinners(matches, mid, winners) ==
    <<Get(winners, matches[mid][1]), Get(winners, matches[mid][2])>>

\* <<t1, t2, winner>> of a match in the previous run; None where it was not rendered
OldRadio(old_teams, old_winners, mid) ==
    IF mid \in DOMAIN old_teams
    THEN <<old_teams[mid][1], old_teams[mid][2], Get(old_winners, mid)>>
    ELSE <<None, None, None>>

(***************************************************************************)
(* One run of the script.  old is the state the previous run left: the     *)
(* widget values and what was rendered.  click is the one widget the user  *)
(* has just changed: [kind, id, pos, value].                               *)
(***************************************************************************)
NoClick == [kind |-> "none", id |-> None, pos |-> 0, value |-> None]

\* montar_classificacao_grupos: the values read from the 48 selectboxes.  The
\* selectboxes of a group the user did not touch have the options they had
\* and return what they returned.
montar_classificacao_grupos(groups, old, click) ==
    IF click.kind = "select"
    THEN {[old.choice EXCEPT ![click.id] = pos_choices] :
            pos_choices \in ReadPositions(groups[click.id], old.choice[click.id],
                                          click.pos, click.value, <<>>)}
    ELSE {old.choice}

\* st.checkbox(label, key=third_<g>)
CheckboxReturns(was_rendered, label_changed, old_value, toggled) ==
    IF ~was_rendered
    THEN {FALSE}
    ELSE IF toggled
         THEN {~old_value}
         ELSE IF label_changed THEN {FALSE, old_value} ELSE {old_value}

\* escolher_top8_terceiros_ui: the sets of <<selected, errors, checkbox values>>
escolher_top8_terceiros_ui(terceiros, old, click) ==
    IF Len(terceiros) # 12
    THEN {<<<<>>, <<"All 12 third-placed teams must be defined first.">>,
            [g \in GroupSet |-> FALSE]>>}
    ELSE LET labels == [k \in 1..12 |-> terceiros[k]]
             boxes == DictProduct(GROUP_NAMES,
                        [g \in GroupSet |->
                           LET team == CHOOSE p \in Range(terceiros) : p[1] = g
                           IN  CheckboxReturns(
                                   old.stage # "groups",
                                   Len(old.standings[g]) # 4 \/ old.standings[g][3] # team[2],
                                   old.checked[g],
                                   click.kind = "toggle" /\ click.id = g)])
         IN  {LET selected == SelectSeq(labels, LAMBDA p : b[p[1]])
              IN  <<selected,
                    IF Len(selected) # 8
                    THEN <<"You must select exactly 8 third-placed teams.">>
                    ELSE <<>>,
                    b>> : b \in boxes}

Round32Outcomes(jogos, old, click) ==
    DictProduct(order32,
        [mid \in Range(order32) |->
            escolher_vencedor_ui(mid, jogos[mid][1], jogos[mid][2],
                IF mid \in DOMAIN old.jogos_r32
                THEN <<old.jogos_r32[mid][1], old.jogos_r32[mid][2], Get(old.winners32, mid)>>
                ELSE <<None, None, None>>,
                IF click.kind = "radio" THEN Clicked(<<click.id, click.value>>, mid) ELSE None)])

RoundOutcomes(matches, order, winners_prev, old_winners, old, click) ==
    DictProduct(order,
        [mid \in Range(order) |->
            LET t == SourceWinners(matches, mid, winners_prev)
            IN  escolher_vencedor_ui(mid, t[1], t[2],
                    OldRadio(old.teams, old_winners, mid),
                    IF click.kind = "radio" THEN Clicked(<<click.id, click.value>>, mid) ELSE None)])

\* Mutant: the third-place match is given the semifinal winners.
ThirdPlaceTeams_Winners(wQ, wS) ==
    LET sf1_t1 == Get(wQ, SEMIS_MATCHES["M101"][1])
        sf1_t2 == Get(wQ, SEMIS_MATCHES["M101"][2])
        sf1_winner == Get(wS, "M101")
        sf2_t1 == Get(wQ, SEMIS_MATCHES["M102"][1])
        sf2_t2 == Get(wQ, SEMIS_MATCHES["M102"][2])
        sf2_winner == Get(wS, "M102")
    IN  IF \A x \in {sf1_t1, sf1_t2, sf1_winner, sf2_t1, sf2_t2, sf2_winner} : x # None
        THEN <<sf1_winner, sf2_winner>>
        ELSE <<None, None>>

\* Third place: the losers of the semifinals, once both are decided
ThirdPlaceTeams(wQ, wS) ==
    LET sf1_t1 == Get(wQ, SEMIS_MATCHES["M101"][1])
        sf1_t2 == Get(wQ, SEMIS_MATCHES["M101"][2])
        sf1_winner == Get(wS, "M101")
        sf2_t1 == Get(wQ, SEMIS_MATCHES["M102"][1])
        sf2_t2 == Get(wQ, SEMIS_MATCHES["M102"][2])
        sf2_winner == Get(wS, "M102")
    IN  IF \A x \in {sf1_t1, sf1_t2, sf1_winner, sf2_t1, sf2_t2, sf2_winner} : x # None
        THEN <<IF sf1_winner = sf1_t1 THEN sf1_t2 ELSE sf1_t1,
               IF sf2_winner = sf2_t1 THEN sf2_t2 ELSE sf2_t1>>
        ELSE <<None, None>>

FinalTeams(wS) == <<Get(wS, "M101"), Get(wS, "M102")>>

TeamsShown(w32, w16, wQ, wS) ==
    [mid \in DOMAIN ROUND16_MATCHES |-> SourceWinners(ROUND16_MATCHES, mid, w32)]
        @@ [mid \in DOMAIN QUARTERS_MATCHES |-> SourceWinners(QUARTERS_MATCHES, mid, w16)]
        @@ [mid \in DOMAIN SEMIS_MATCHES |-> SourceWinners(SEMIS_MATCHES, mid, wQ)]
        @@ (THIRD_PLACE_ID :> ThirdPlaceTeams(wQ, wS))
        @@ (FINAL_ID :> FinalTeams(wS))

\* Sections 3 to 7 of the page: the sets of winners the radios can return
BracketOutcomes(jogos, old, click) ==
    UNION {UNION {UNION {UNION {
        LET shown == TeamsShown(w32, w16, wQ, wS)
        IN  {[winners32 |-> w32, winners16 |-> w16, winnersQ |-> wQ, winnersS |-> wS,
              teams |-> shown, third_place_winner |-> tpw, champion |-> ch] :
                tpw \in escolher_vencedor_ui(THIRD_PLACE_ID,
                            shown[THIRD_PLACE_ID][1], shown[THIRD_PLACE_ID][2],
                            OldRadio(old.teams, (THIRD_PLACE_ID :> old.third_place_winner),
                                     THIRD_PLACE_ID),
                            IF click.kind = "radio"
                            THEN Clicked(<<click.id, click.value>>, THIRD_PLACE_ID) ELSE None),
                ch \in escolher_vencedor_ui(FINAL_ID,
                            shown[FINAL_ID][1], shown[FINAL_ID][2],
                            OldRadio(old.teams, (FINAL_ID :> old.champion), FINAL_ID),
                            IF click.kind = "radio"
                            THEN Clicked(<<click.id, click.value>>, FINAL_ID) ELSE None)}
        : wS \in RoundOutcomes(SEMIS_MATCHES, orderS, wQ, old.winnersS, old, click)}
        : wQ \in RoundOutcomes(QUARTERS_MATCHES, orderQ, w16, old.winnersQ, old, click)}
        : w16 \in RoundOutcomes(ROUND16_MATCHES, order16, w32, old.winners16, old, click)}
        : w32 \in Round32Outcomes(jogos, old, click)}

\* Mutant: the run goes on to the third-place selection with group errors.
StopAfterGroups_Never(errors) == FALSE

\* if errors_groups: ... st.stop()
StopAfterGroups(errors) == errors # <<>>

\* if errors_thirds: ... st.stop()
StopAfterThirds(errors) == errors # <<>>

\* if err: ... st.stop()
StopAfterRound32(error) == error # None

NothingRendered ==
    [winners32 |-> EmptyDict, winners16 |-> EmptyDict, winnersQ |-> EmptyDict,
     winnersS |-> EmptyDict, teams |-> EmptyDict, third_place_winner |-> None,
     champion |-> None]

\* The script from the group stage to the end: the states a run can leave.
\* st.stop() ends the run; widgets below it are not rendered and lose their
\* values.
ScriptRun(old, click) ==
    UNION {
        LET st == ClassificacaoStandings(ch)
            errors == ClassificacaoErrors(ch)
            base == [choice |-> ch, standings |-> st, errors_groups |-> errors,
                     checked |-> [g \in GroupSet |-> FALSE],
                     qualified_thirds |-> <<>>, errors_thirds |-> <<>>,
                     jogos_terceiros |-> <<NoDict, None>>, jogos_r32 |-> EmptyDict,
                     err |-> None]
        IN  IF StopAfterGroups(errors)
            THEN {[stage |-> "groups"] @@ base @@ NothingRendered}
            ELSE UNION {
                LET thirds == [qualified_thirds |-> sel[1], errors_thirds |-> sel[2],
                               checked |-> sel[3]] @@ base
                IN  IF StopAfterThirds(sel[2])
                    THEN {[stage |-> "thirds"] @@ thirds @@ NothingRendered}
                    ELSE LET m == montar_round32(st, sel[1])
                             r32 == [jogos_terceiros |-> distribuir_terceiros_nos_jogos(sel[1]),
                                     jogos_r32 |-> m[1], err |-> m[2]] @@ thirds
                         IN  IF StopAfterRound32(m[2])
                             THEN {[stage |-> "round32_error"] @@ r32 @@ NothingRendered}
                             ELSE {[stage |-> "bracket"] @@ r32 @@ b :
                                      b \in BracketOutcomes(m[1], old, click)}
                : sel \in escolher_top8_terceiros_ui(coletar_terceiros(st), old, click)}
        : ch \in montar_classificacao_grupos(INITIAL_GROUPS, old, click)}

(***************************************************************************)
(* Spec: one session.  It starts after the user has ranked every group     *)
(* and ticked the third-placed teams of the groups in PreChecked; from     *)
(* there the user changes the selectboxes of EditGroup, the checkboxes of  *)
(* the first NumToggle groups and the radios of the first NumPickable      *)
(* matches of PickOrder.                                                   *)
(***************************************************************************)
\* how many orders of finish (rotations of the configured order) are tried as starting standings
NumOrders == 2

Rotate(s, r) == [k \in 1..Len(s) |-> s[((k - 1 + r) % Len(s)) + 1]]

Reverse(s) == [k \in 1..Len(s) |-> s[Len(s) + 1 - k]]

\* the user operates the checkboxes of the first NumToggle groups
NumToggle == 3

\* the user operates the radios of the first NumPickable matches of PickOrder
NumPickable == 7

EditGroup == "A"

PreChecked == {"G", "H", "I", "J", "K", "L"}

PickOrder ==
    <<"M74", "M89", "M97", "M101", "M103 (Third Place)", "M104 (Final)", "M102",
      "M99", "M98", "M90", "M77", "M73", "M75", "M100", "M91", "M92", "M93",
      "M94", "M95", "M96", "M76", "M78", "M79", "M80", "M81", "M82", "M83",
      "M84", "M85", "M86", "M87", "M88">>

Min(a, b) == IF a < b THEN a ELSE b

ToggleGroups == {GROUP_NAMES[k] : k \in 1..Min(NumToggle, Len(GROUP_NAMES))}

PickableMatches == {PickOrder[k] : k \in 1..Min(NumPickable, Len(PickOrder))}

Previous ==
    [choice |-> choice, checked |-> checked, stage |-> stage, standings |-> standings,
     jogos_r32 |-> jogos_r32, winners32 |-> winners32, winners16 |-> winners16,
     winnersQ |-> winnersQ, winnersS |-> winnersS, teams |-> teams,
     third_place_winner |-> third_place_winner, champion |-> champion]

\* The state a run leaves
Leaves(r) ==
    /\ choice' = r.choice
    /\ checked' = r.checked
    /\ stage' = r.stage
    /\ standings' = r.standings
    /\ errors_groups' = r.errors_groups
    /\ qualified_thirds' = r.qualified_thirds
    /\ errors_thirds' = r.errors_thirds
    /\ jogos_terceiros' = r.jogos_terceiros
    /\ jogos_r32' = r.jogos_r32
    /\ err' = r.err
    /\ winners32' = r.winners32
    /\ winners16' = r.winners16
    /\ winnersQ' = r.winnersQ
    /\ winnersS' = r.winnersS
    /\ teams' = r.teams
    /\ third_place_winner' = r.third_place_winner
    /\ champion' = r.champion
    /\ UNCHANGED <<pc, code, team_out>>

Init ==
    /\ pc = "app"
    /\ code = <<>>
    /\ team_out = None
    /\ \E r \in 0..(NumOrders - 1) :
         LET ranked == [g \in GroupSet |-> Rotate(INITIAL_GROUPS[g], r)]
             before == [choice |-> ranked,
                        checked |-> [g \in GroupSet |-> g \in PreChecked],
                        stage |-> "thirds",
                        standings |-> ranked,
                        jogos_r32 |-> EmptyDict] @@ NothingRendered
         IN  \E run \in ScriptRun(before, NoClick) :
                /\ choice = run.choice
                /\ checked = run.checked
                /\ stage = run.stage
                /\ standings = run.standings
                /\ errors_groups = run.errors_groups
                /\ qualified_thirds = run.qualified_thirds
                /\ errors_thirds = run.errors_thirds
                /\ jogos_terceiros = run.jogos_terceiros
                /\ jogos_r32 = run.jogos_r32
                /\ err = run.err
                /\ winners32 = run.winners32
                /\ winners16 = run.winners16
                /\ winnersQ = run.winnersQ
                /\ winnersS = run.winnersS
                /\ teams = run.teams
                /\ third_place_winner = run.third_place_winner
                /\ champion = run.champion

\* The user chooses value in the selectbox of position pos of group g
SelectPosition(g, pos, value) ==
    /\ pc = "app"
    /\ g = EditGroup
    /\ value \in Range(SelectboxOptions(INITIAL_GROUPS[g], SubSeq(choice[g], 1, pos - 1)))
    /\ value # choice[g][pos]
    /\ \E r \in ScriptRun(Previous, [kind |-> "select", id |-> g, pos |-> pos,
                                     value |-> value]) : Leaves(r)

\* The user ticks or unticks the checkbox of group g
ToggleThird(g) ==
    /\ pc = "app"
    /\ stage # "groups"
    /\ g \in ToggleGroups
    /\ \E r \in ScriptRun(Previous, [kind |-> "toggle", id |-> g, pos |-> 0,
                                     value |-> None]) : Leaves(r)

\* The two teams the radio of a match offers, <<None, None>> when not rendered
RadioOptions(mid) ==
    IF mid \in DOMAIN jogos_r32
    THEN <<jogos_r32[mid][1], jogos_r32[mid][2]>>
    ELSE IF mid \in DOMAIN teams THEN teams[mid] ELSE <<None, None>>

RadioValue(mid) ==
    IF mid = THIRD_PLACE_ID THEN third_place_winner
    ELSE IF mid = FINAL_ID THEN champion
    ELSE Get(winners32 @@ winners16 @@ winnersQ @@ winnersS, mid)

\* The user chooses team in the radio of match mid
ChooseWinner(mid, team) ==
    /\ pc = "app"
    /\ stage = "bracket"
    /\ mid \in PickableMatches
    /\ RadioValue(mid) # None
    /\ team \in Range(RadioOptions(mid))
    /\ team # RadioValue(mid)
    /\ \E r \in ScriptRun(Previous, [kind |-> "radio", id |-> mid, pos |-> 0,
                                     value |-> team]) : Leaves(r)

Next ==
    \/ \E g \in GroupSet, pos \in 1..4, value \in Teams \cup {EMPTY} :
          SelectPosition(g, pos, value)
    \/ \E g \in GroupSet : ToggleThird(g)
    \/ \E mid \in Range(PickOrder), team \in Teams : ChooseWinner(mid, team)

Spec == Init /\ [][Next]_vars

(***************************************************************************)
(* SpecR32: montar_round32 applied to enumerated standings and lists of    *)
(* qualified pairs.                                                        *)
(***************************************************************************)
\* how many of the 8 a list of checked third-placed teams may miss or exceed
MaxOff == 1

\* The checked third-placed teams of the groups in S, in the order
\* escolher_top8_terceiros_ui appends them.
Selection(st, S) == SelectSeq(coletar_terceiros(st), LAMBDA p : p[1] \in S)

\* The same list with its first pair replaced by the fourth-placed team of the
\* last pair's group: two teams of one group, which no standing produces.
SameGroupTwice(st, q) ==
    IF Len(q) = 0 THEN q
    ELSE [q EXCEPT ![1] = <<q[Len(q)][1], st[q[Len(q)][1]][4]>>]

QualifiedInputs(st) ==
    LET sel == {Selection(st, S) :
                  S \in {T \in SUBSET GroupSet :
                           /\ Cardinality(T) >= 8 - MaxOff
                           /\ Cardinality(T) <= 8 + MaxOff}}
    IN  sel \cup {Reverse(q) : q \in sel} \cup {SameGroupTwice(st, q) : q \in sel}

NoBracket == [mid \in {} |-> None]

InitR32 ==
    /\ pc = "r32_input"
    /\ \E r \in 0..(NumOrders - 1) :
         standings = [g \in GroupSet |-> Rotate(INITIAL_GROUPS[g], r)]
    /\ qualified_thirds \in QualifiedInputs(standings)
    /\ choice = standings
    /\ checked = [g \in GroupSet |-> FALSE]
    /\ stage = "function"
    /\ errors_groups = <<>>
    /\ errors_thirds = <<>>
    /\ jogos_terceiros = <<NoDict, None>>
    /\ jogos_r32 = EmptyDict
    /\ err = None
    /\ winners32 = EmptyDict
    /\ winners16 = EmptyDict
    /\ winnersQ = EmptyDict
    /\ winnersS = EmptyDict
    /\ teams = EmptyDict
    /\ third_place_winner = None
    /\ champion = None
    /\ code = <<>>
    /\ team_out = None

ApplyMontarRound32 ==
    /\ pc = "r32_input"
    /\ pc' = "r32_done"
    /\ jogos_terceiros' = distribuir_terceiros_nos_jogos(qualified_thirds)
    /\ LET m == montar_round32(standings, qualified_thirds)
       IN  /\ jogos_r32' = m[1]
           /\ err' = m[2]
    /\ UNCHANGED <<choice, checked, stage, standings, errors_groups, qualified_thirds,
                   errors_thirds, winners32, winners16, winnersQ, winnersS,
                   teams, third_place_winner, champion, code, team_out>>

NextR32 == ApplyMontarRound32

SpecR32 == InitR32 /\ [][NextR32]_vars


(***************************************************************************)
(* Properties of the third-place assignment, checked under SpecR32         *)
(***************************************************************************)
\* The third-place slots and their eligible groups, as the claims list them.
ThirdSlotOrder == <<"M74", "M77", "M79", "M80", "M81", "M82", "M85", "M87">>

ThirdSlots == Range(ThirdSlotOrder)

EligibleGroups(mid) == Range(ROUND32_THIRD_SLOTS[mid][2])

EligibleSlots(group) == {mid \in ThirdSlots : group \in EligibleGroups(mid)}

\* Hall's condition: the pairs of q at the indices in I can all be placed,
\* each in a slot of its own, within the slots in free.
Matchable(q, I, free) ==
    \A J \in SUBSET I :
        Cardinality(UNION {EligibleSlots(q[i][1]) : i \in J} \cap free) >= Cardinality(J)

PerfectMatchingExists(q) == Matchable(q, 1..Len(q), ThirdSlots)

AssignmentReturned == pc = "r32_done" /\ jogos_terceiros[1] # NoDict

Returned == jogos_terceiros[1][1]

DistinctPairs(q) == Cardinality(Range(q)) = Len(q)

DistinctGroups(q) == Cardinality({q[k][1] : k \in 1..Len(q)}) = Len(q)

\* C1: an assignment returned for a list of 8 pairs is a bijection between the
\* pairs and the 8 third-place slots: every slot holds one pair, no pair is in
\* two slots, and each pair's group is eligible for its slot.
C1_AssignmentIsBijection ==
    AssignmentReturned =>
        /\ Len(qualified_thirds) = 8
        /\ DOMAIN Returned = ThirdSlots
        /\ Range(Returned) = Range(qualified_thirds)
        /\ \A m1, m2 \in ThirdSlots : m1 # m2 => Returned[m1] # Returned[m2]
        /\ \A mid \in ThirdSlots : Returned[mid][1] \in EligibleGroups(mid)

\* C1 witness: an assignment was returned for a list in which a group occurs
\* twice, so the two pairs of that group had to go to different slots.
C1_Witness ==
    /\ AssignmentReturned
    /\ DistinctPairs(qualified_thirds)
    /\ ~DistinctGroups(qualified_thirds)

\* C2: an assignment is returned whenever the list has 8 pairs and a perfect
\* matching exists; otherwise an error message is returned and no map at all.
C2_CompleteAndNoPartialMap ==
    pc = "r32_done" =>
        IF Len(qualified_thirds) = 8 /\ PerfectMatchingExists(qualified_thirds)
        THEN /\ jogos_terceiros[1] # NoDict
             /\ DOMAIN Returned = ThirdSlots
             /\ jogos_terceiros[2] = None
        ELSE /\ jogos_terceiros[1] = NoDict
             /\ jogos_terceiros[2] # None
             /\ jogos_r32 = EmptyDict
             /\ err = jogos_terceiros[2]

\* C2 witness: 8 pairs that admit no perfect matching were refused.
C2_Witness ==
    /\ pc = "r32_done"
    /\ Len(qualified_thirds) = 8
    /\ ~PerfectMatchingExists(qualified_thirds)
    /\ jogos_terceiros[1] = NoDict

\* C3: for 8 third-placed teams of 8 different groups the "Unable to assign"
\* error is never returned.
C3_UnableToAssignUnreachable ==
    (/\ pc = "r32_done"
     /\ Len(qualified_thirds) = 8
     /\ DistinctGroups(qualified_thirds))
        => /\ err = None
           /\ jogos_terceiros[1] # NoDict

\* C3 witness: a selection of 8 groups containing both K and L, the two groups
\* with a single eligible slot each, was assigned.
C3_Witness ==
    /\ pc = "r32_done"
    /\ Len(qualified_thirds) = 8
    /\ DistinctGroups(qualified_thirds)
    /\ {"K", "L"} \subseteq {qualified_thirds[k][1] : k \in 1..8}
    /\ err = None

RECURSIVE LexFirstFrom(_, _, _, _)
\* The lexicographically first perfect matching: pair i takes the earliest
\* free eligible slot that leaves the pairs after it matchable.
LexFirstFrom(q, i, free, asg) ==
    IF i > Len(q)
    THEN asg
    ELSE LET ok == {j \in 1..Len(ThirdSlotOrder) :
                      /\ ThirdSlotOrder[j] \in free
                      /\ ThirdSlotOrder[j] \in EligibleSlots(q[i][1])
                      /\ Matchable(q, (i + 1)..Len(q), free \ {ThirdSlotOrder[j]})}
             j0 == CHOOSE j \in ok : \A k \in ok : j <= k
         IN  LexFirstFrom(q, i + 1, free \ {ThirdSlotOrder[j0]},
                          asg @@ (ThirdSlotOrder[j0] :> q[i]))

LexFirst(q) == LexFirstFrom(q, 1, ThirdSlots, EmptyDict)

SlotOf(asg, pair) == CHOOSE mid \in DOMAIN asg : asg[mid] = pair

SlotIndex(mid) == CHOOSE j \in 1..Len(ThirdSlotOrder) : ThirdSlotOrder[j] = mid

\* C9: the assignment returned is the lexicographically first perfect matching,
\* pairs taken in input order and slots in the order M74, M77, M79, M80, M81,
\* M82, M85, M87.
C9_FirstMatchingInOrder ==
    AssignmentReturned => Returned = LexFirst(qualified_thirds)

\* C9 witness: an assignment in which some pair is not in the earliest eligible
\* slot left free by the pairs before it, so the search had to back up.
C9_Witness ==
    /\ AssignmentReturned
    /\ \E i \in 1..Len(qualified_thirds) :
         \E mid \in EligibleSlots(qualified_thirds[i][1]) :
            /\ SlotIndex(mid) < SlotIndex(SlotOf(Returned, qualified_thirds[i]))
            /\ \A k \in 1..(i - 1) : SlotOf(Returned, qualified_thirds[k]) # mid

\* The selection is what escolher_top8_terceiros_ui returns for complete
\* standings: 8 third-placed teams of 8 groups, in group order.
ValidSelection(st, q) ==
    /\ \A g \in GroupSet : validar_permutacao(st[g], EMPTY) /\ Len(st[g]) = 4
    /\ Len(q) = 8
    /\ DistinctGroups(q)
    /\ q = Selection(st, {q[k][1] : k \in 1..Len(q)})

Participants(jogos) == UNION {{jogos[mid][1], jogos[mid][2]} : mid \in DOMAIN jogos}

Round32Ids == {"M73", "M74", "M75", "M76", "M77", "M78", "M79", "M80",
               "M81", "M82", "M83", "M84", "M85", "M86", "M87", "M88"}

\* C10: a generated round of 32 has 16 matches with both teams resolved; its 32
\* participants are pairwise distinct and are the 12 group winners, the 12
\* runners-up and the 8 qualified third-placed teams.
C10_Round32Participants ==
    (/\ pc = "r32_done"
     /\ ValidSelection(standings, qualified_thirds))
        => /\ err = None
           /\ DOMAIN jogos_r32 = Round32Ids
           /\ \A mid \in Round32Ids :
                 /\ jogos_r32[mid][1] \in Teams
                 /\ jogos_r32[mid][2] \in Teams
           /\ Cardinality(Participants(jogos_r32)) = 32
           /\ Participants(jogos_r32) =
                 {standings[g][1] : g \in GroupSet}
                    \cup {standings[g][2] : g \in GroupSet}
                    \cup {qualified_thirds[k][2] : k \in 1..8}

\* C10 witness: a round of 32 generated for standings that are not in the
\* configured order.
C10_Witness ==
    /\ pc = "r32_done"
    /\ ValidSelection(standings, qualified_thirds)
    /\ standings # INITIAL_GROUPS
    /\ DOMAIN jogos_r32 = Round32Ids


(***************************************************************************)
(* SpecSeed: extrair_time applied to enumerated seed codes, over standings *)
(* that montar_classificacao_grupos built from enumerated selectbox values *)
(***************************************************************************)
\* the longest seed code tried
MaxCodeLen == 3

CodeAlphabet == {"0", "1", "4", "5", "A", "Z"}

Codes == UNION {[1..n -> CodeAlphabet] : n \in 0..MaxCodeLen}

\* Values of the four selectboxes of one group: complete orders, one position
\* left empty, and one team repeated.
ChoiceFamily(group_teams) ==
    {group_teams, Reverse(group_teams), [group_teams EXCEPT ![2] = group_teams[1]]}
        \cup {[group_teams EXCEPT ![k] = EMPTY] : k \in 1..4}

InitSeed ==
    /\ pc = "seed_input"
    /\ code \in Codes
    /\ \E c \in ChoiceFamily(INITIAL_GROUPS["A"]) :
         choice = [INITIAL_GROUPS EXCEPT !["A"] = c]
    /\ standings = ClassificacaoStandings(choice)
    /\ errors_groups = ClassificacaoErrors(choice)
    /\ team_out = None
    /\ qualified_thirds = <<>>
    /\ checked = [g \in GroupSet |-> FALSE]
    /\ stage = "function"
    /\ errors_thirds = <<>>
    /\ jogos_terceiros = <<NoDict, None>>
    /\ jogos_r32 = EmptyDict
    /\ err = None
    /\ winners32 = EmptyDict
    /\ winners16 = EmptyDict
    /\ winnersQ = EmptyDict
    /\ winnersS = EmptyDict
    /\ teams = EmptyDict
    /\ third_place_winner = None
    /\ champion = None

ApplyExtrairTime ==
    /\ pc = "seed_input"
    /\ pc' = "seed_done"
    /\ team_out' = extrair_time(code, standings)
    /\ UNCHANGED <<choice, checked, stage, standings, errors_groups, qualified_thirds,
                   errors_thirds, jogos_terceiros, jogos_r32, err, winners32,
                   winners16, winnersQ, winnersS, teams, third_place_winner,
                   champion, code>>

NextSeed == ApplyExtrairTime

SpecSeed == InitSeed /\ [][NextSeed]_vars

\* A standing is complete: exactly 4 distinct non-empty entries.
CompleteStanding(entries) ==
    /\ Len(entries) = 4
    /\ \A k \in 1..4 : entries[k] # EMPTY
    /\ \A j, k \in 1..4 : j # k => entries[j] # entries[k]

DigitValue(d) == CHOOSE n \in 1..4 : <<"1", "2", "3", "4">>[n] = d

\* C8: extrair_time returns None if the code is not exactly 2 characters, the
\* group is unknown, the position digit is not in 1..4 or the group's standing
\* is not complete; otherwise the team at that position of the group's standing.
C8_ResolveSeedCode ==
    pc = "seed_done" =>
        IF \/ Len(code) # 2
           \/ code[2] \notin GroupSet
           \/ code[1] \notin {"1", "2", "3", "4"}
           \/ ~CompleteStanding(choice[code[2]])
        THEN team_out = None
        ELSE team_out = choice[code[2]][DigitValue(code[1])]

\* C8 witness: the code 4A resolved to the fourth team of a complete standing
\* of group A that is not in the configured order.
C8_Witness ==
    /\ pc = "seed_done"
    /\ code = <<"4", "A">>
    /\ choice["A"] # INITIAL_GROUPS["A"]
    /\ team_out = choice["A"][4]
    /\ team_out \in Teams


(***************************************************************************)
(* Properties of the session, checked under Spec                           *)
(***************************************************************************)
LaterMatches ==
    DOMAIN ROUND16_MATCHES \cup DOMAIN QUARTERS_MATCHES \cup DOMAIN SEMIS_MATCHES
        \cup {FINAL_ID}

\* The two matches whose winners meet in a match after the round of 32
Sources(mid) ==
    IF mid \in DOMAIN ROUND16_MATCHES THEN ROUND16_MATCHES[mid]
    ELSE IF mid \in DOMAIN QUARTERS_MATCHES THEN QUARTERS_MATCHES[mid]
    ELSE IF mid \in DOMAIN SEMIS_MATCHES THEN SEMIS_MATCHES[mid]
    ELSE <<"M101", "M102">>

\* The recorded winner of a match, None when there is none
Winner(mid) == RadioValue(mid)

\* The two teams of a match, None for a team that is not resolved
TeamsOf(mid) == RadioOptions(mid)

Pending(mid) == TeamsOf(mid)[1] = None \/ TeamsOf(mid)[2] = None

AllMatches == Round32Ids \cup LaterMatches \cup {THIRD_PLACE_ID}

\* C4: once both semifinals have a winner the third-place match is played by
\* the two semifinal losers, neither of them a finalist; before that it is
\* pending.
C4_ThirdPlaceIsSemifinalLosers ==
    IF Winner("M101") # None /\ Winner("M102") # None
    THEN /\ ~Pending(THIRD_PLACE_ID)
         /\ \A k \in 1..2 :
               LET sf == orderS[k]
                   loser == TeamsOf(THIRD_PLACE_ID)[k]
               IN  /\ loser \in Range(TeamsOf(sf))
                   /\ loser # Winner(sf)
         /\ Range(TeamsOf(THIRD_PLACE_ID)) \cap {Winner("M101"), Winner("M102")} = {}
         /\ TeamsOf(FINAL_ID) = <<Winner("M101"), Winner("M102")>>
    ELSE /\ TeamsOf(THIRD_PLACE_ID) = <<None, None>>
         /\ Winner(THIRD_PLACE_ID) = None

\* C4 witness: the second team of semifinal M101 was chosen as its winner and
\* its first team plays the third-place match.
C4_Witness ==
    /\ stage = "bracket"
    /\ Winner("M101") = TeamsOf("M101")[2]
    /\ Winner("M102") = TeamsOf("M102")[1]
    /\ TeamsOf(THIRD_PLACE_ID) = <<TeamsOf("M101")[1], TeamsOf("M102")[2]>>

\* C5: a match after the round of 32 has both teams resolved only when both of
\* its source matches have a winner, and its teams are then those two winners;
\* a match with an unresolved input is pending and has no winner, and none can
\* be chosen for it.
C5_ResolvedOnlyFromWinners ==
    /\ \A mid \in LaterMatches :
          LET w1 == Winner(Sources(mid)[1])
              w2 == Winner(Sources(mid)[2])
          IN  /\ ~Pending(mid) => (w1 # None /\ w2 # None /\ TeamsOf(mid) = <<w1, w2>>)
              /\ (w1 = None \/ w2 = None) => (Pending(mid) /\ Winner(mid) = None)
    /\ \A mid \in AllMatches : Pending(mid) => Winner(mid) = None
    /\ \A mid \in AllMatches, t \in {None, champion}, c \in {None, champion} :
          /\ escolher_vencedor_ui(mid, None, t, <<None, t, champion>>, c) = {None}
          /\ escolher_vencedor_ui(mid, t, None, <<t, None, champion>>, c) = {None}

\* C5 witness: the third-placed team of match M74 won it and is the first team
\* of the round-of-16 match M89, which has a winner.
C5_Witness ==
    /\ stage = "bracket"
    /\ Winner("M74") = jogos_r32["M74"][2]
    /\ TeamsOf("M89")[1] = jogos_r32["M74"][2]
    /\ Winner("M89") # None

\* C6: every recorded winner, of the round of 32 through the final and of the
\* third-place match, is one of the two current teams of its own match.
C6_WinnerIsParticipant ==
    \A mid \in AllMatches :
        Winner(mid) # None => (~Pending(mid) /\ Winner(mid) \in Range(TeamsOf(mid)))

\* C6 witness: after the winner of M74 was changed, the round-of-16 match M89
\* has its second team as winner and the quarterfinal M97 its first.
C6_Witness ==
    /\ stage = "bracket"
    /\ Winner("M74") = jogos_r32["M74"][2]
    /\ Winner("M89") = TeamsOf("M89")[2]
    /\ Winner("M97") = TeamsOf("M97")[1]
    /\ champion = TeamsOf(FINAL_ID)[1]

BracketExists == jogos_r32 # EmptyDict

NothingShown ==
    /\ winners32 = EmptyDict
    /\ winners16 = EmptyDict
    /\ winnersQ = EmptyDict
    /\ winnersS = EmptyDict
    /\ teams = EmptyDict
    /\ third_place_winner = None
    /\ champion = None

\* C7: while a group standing is invalid the third-place selection is not
\* reached; while the selected third-placed teams are not exactly 8 no bracket
\* is generated; a round of 32 exists only when all 12 standings are complete
\* and exactly 8 third-placed teams are qualified.
C7_StagesGated ==
    /\ (\E g \in GroupSet : ~CompleteStanding(choice[g]))
          => /\ stage = "groups"
             /\ errors_groups # <<>>
             /\ qualified_thirds = <<>>
             /\ errors_thirds = <<>>
             /\ \A g \in GroupSet : ~checked[g]
             /\ ~BracketExists
             /\ NothingShown
    /\ Cardinality({g \in GroupSet : checked[g]}) # 8
          => /\ stage \in {"groups", "thirds"}
             /\ ~BracketExists
             /\ NothingShown
    /\ BracketExists
          => /\ stage = "bracket"
             /\ \A g \in GroupSet : CompleteStanding(choice[g]) /\ standings[g] = choice[g]
             /\ Cardinality({g \in GroupSet : checked[g]}) = 8
             /\ qualified_thirds = Selection(standings, {g \in GroupSet : checked[g]})
             /\ Len(qualified_thirds) = 8
    /\ stage = "thirds" => errors_thirds # <<>>

\* C7 witness: all standings are complete again after a group was edited, and
\* the bracket is withheld because fewer than 8 third-placed teams are ticked.
C7_Witness ==
    /\ stage = "thirds"
    /\ choice[EditGroup] # INITIAL_GROUPS[EditGroup]
    /\ \A r \in 0..3 : choice[EditGroup] # Rotate(INITIAL_GROUPS[EditGroup], r)
    /\ \E g \in GroupSet : checked[g]
    /\ ~BracketExists

=============================================================================
